---- MODULE Spec2Model ----
(***************************************************************************)
(* The Orange Romania API client (custom_components/orange/api.py) as a    *)
(* state machine.  The state is the OrangeAPI object (authenticated,       *)
(* sso_id, user_data), the coroutine that is running on it with its        *)
(* position and locals, and the outcome of the last call.  Every await of  *)
(* a request is one step: the step draws the response of the portal (or a  *)
(* transport error) from a small set and runs the code up to the next      *)
(* request or to the end of the call.  The host runs one call at a time.   *)
(***************************************************************************)
EXTENDS Integers, Sequences, FiniteSets, TLC

\* ------------------------------------------------------------------ bounds

\* longest profile list the portal returns
MaxProfiles == 2
\* longest subscribers list and longest subscriptions-summary list
MaxRecords == 1
\* longest profile list of a run in which the answers of the portal are recorded
MaxStableProfiles == 1
\* longest subscribers list and longest subscriptions-summary list of such a run
MaxStableRecords == 0

\* response.status == 200
HTTP_OK == 200

\* ------------------------------------------------- Python and JSON values
\* A dict is a function from keys to values and a key can be absent; a list
\* is a sequence.  A scalar that can be null is tagged, so that None compares
\* with numbers.  Amounts are in hundredths (129.41 is 12941).  A timestamp
\* in milliseconds is kept as seconds and milliseconds: 1771200000000 ms is
\* Millis(1771200000, 0).

None == [t |-> "None"]
Num(n) == [t |-> "num", v |-> n]
Str(s) == [t |-> "str", v |-> s]
Bool(b) == [t |-> "bool", v |-> b]
Millis(s, ms) == [t |-> "ms", sec |-> s, ms |-> ms]
Date(y, m, d) == [t |-> "date", y |-> y, m |-> m, d |-> d]

\* {}
EmptyDict == [k \in {} |-> None]

\* d.get(k, default)
Get(d, k, default) == IF k \in DOMAIN d THEN d[k] ELSE default

\* bool(x) of a scalar: None, 0, 0.0 and False are falsy
Truthy(x) ==
    CASE x.t = "None" -> FALSE
      [] x.t = "num"  -> x.v # 0
      [] x.t = "bool" -> x.v
      [] x.t = "ms"   -> x.sec # 0 \/ x.ms # 0
      [] OTHER        -> TRUE

\* x or 0.0, for a number or None
OrZero(x) == IF Truthy(x) THEN x.v ELSE 0

\* the decimal digits of a natural number
RECURSIVE Digits(_)
Digits(n) == IF n < 10 THEN <<n>> ELSE Append(Digits(n \div 10), n % 10)

\* str(profile_id) of an integer: its digits, after "-" (written 45, the
\* code of the character) when it is negative
StrOfInt(n) == IF n < 0 THEN <<45>> \o Digits(0 - n) ELSE Digits(n)

\* datetime.fromtimestamp(ts).strftime("%Y-%m-%d") on a host whose local time
\* is off seconds east of UTC: the civil date of the day number of ts + off
CivilFromDays(days) ==
    LET z   == days + 719468
        era == z \div 146097
        doe == z - era * 146097
        yoe == (doe - doe \div 1460 + doe \div 36524 - doe \div 146096) \div 365
        doy == doe - (365 * yoe + yoe \div 4 - yoe \div 100)
        mp  == (5 * doy + 2) \div 153
        d   == doy - (153 * mp + 2) \div 5 + 1
        m   == IF mp < 10 THEN mp + 3 ELSE mp - 9
        y   == yoe + era * 400 + (IF m <= 2 THEN 1 ELSE 0)
    IN  Date(y, m, d)

\* FromTimestampDate in UTC on every host
FromTimestampDate_utc(ts, off) == CivilFromDays(ts.sec \div 86400)

FromTimestampDate(ts, off) == CivilFromDays((ts.sec + off) \div 86400)

\* --------------------------------------------------- what the portal sends
\* A request ends with a response (a status and, for 200, what the code reads
\* of it) or with aiohttp.ClientError.

ClientError == [err |-> "ClientError"]
Response(status, body) == [status |-> status, body |-> body]
IsError(r) == "err" \in DOMAIN r

\* one status stands for every status that is not 200: the code compares with 200 only
Statuses == {HTTP_OK, 401}

\* the sequences over S of length at most n
SeqUpTo(S, n) == UNION {[1..k -> S] : k \in 0..n}

\* the final URL of the landing GET, after the redirects
LoginUrls == {"login?ak=1", "login?ak=2"}

CurrentUser1 == [ssoId |-> Num(12345), username |-> Str("user")]

\* userData bodies
UserDataBodies ==
    { EmptyDict,
      [status |-> Str("ok")],
      [data |-> EmptyDict],
      [data |-> [isUserLogged |-> Bool(FALSE)]],
      [data |-> [isUserLogged |-> Bool(TRUE)]],
      [data |-> [isUserLogged |-> Bool(TRUE), currentUser |-> CurrentUser1]] }

ProfileObjs ==
    { [id |-> None, name |-> Str("No Id")],
      [id |-> Num(0), name |-> Str("Zero")],
      [id |-> Num(100000001), name |-> Str("John Doe")],
      [id |-> Num(2)] }

ProfilesBodies == {[profiles |-> l] : l \in SeqUpTo(ProfileObjs, MaxProfiles)}

SubscriberObjs == {[subscriberId |-> Num(456), msisdn |-> Str("0700123456")]}

SubscribersBodies == SeqUpTo(SubscriberObjs, MaxRecords)

SummaryObjs == {[totalPointsInOnlineShop |-> Num(438)], [profileId |-> Num(2)]}

SummaryBodies == {[data |-> l] : l \in SeqUpTo(SummaryObjs, MaxRecords)}

InvoiceDataObjs ==
    { [hasInvoicesOnProfile |-> Bool(FALSE)],
      [totalBalanceAmount |-> None],
      [totalBalanceAmount |-> Num(0)],
      [totalBalanceAmount |-> Num(-500)],
      [totalBalanceAmount |-> Num(700)],
      [totalBalanceAmount |-> Num(12941), totalBalanceServices |-> Num(12941),
       dueDate |-> Millis(1771200000, 0), hasInvoicesOnProfile |-> Bool(TRUE)] }

InvoiceBodies == {[data |-> None]} \cup {[data |-> d] : d \in InvoiceDataObjs}

TransactionsBodies == {[data |-> <<>>]}

\* the responses a request can get: an error, a status that is not 200, or 200
\* with one of the bodies
Responses(bodies) ==
    {ClientError} \cup {Response(s, None) : s \in Statuses \ {HTTP_OK}}
                  \cup {Response(HTTP_OK, b) : b \in bodies}

\* the offsets from UTC, in seconds, that the host's local time can have when
\* a date is formatted (UTC-5, UTC, UTC+2)
TzOffsets == {-18000, 0, 7200}

\* ------------------------------------------------------------------ state

VARIABLES
    authenticated,      \* self._authenticated
    sso_id,             \* self._sso_id
    user_data,          \* self._user_data
    credentials,        \* self._username, self._password
    hass,               \* async_setup_entry: how far it is, the coordinator, hass.data
    op,                 \* the method the host has called, "none" before the first call
    arg,                \* its profile_id argument, None when it has none
    pc,                 \* the request the running call awaits; "idle" or "done" between calls
    ret,                \* how the call ended: "returned", "raised", "none" while it runs
    result,             \* the value returned or the exception raised
    entryAuth,          \* self._authenticated when the call started
    authCalls,          \* how many times the call has invoked authenticate()
    authRet,            \* how that authenticate() ended: "true", "false", "raised", else "none"
    reqlog,             \* the requests the call has issued, in order, each with how it ended
    last,               \* the last of them whole: endpoint, argument and response
    stable,             \* the answers of the portal to one get_data(), for the next one
    login_url,          \* authenticate(): login_url
    profiles_data,      \* get_data(): profiles_data
    subscribers_data,   \* get_data(): subscribers_data
    subscriptions_data, \* get_data(): subscriptions_data
    unpaid_bills,       \* _fetch_unpaid_bills(): unpaid_bills
    idx                 \* _fetch_unpaid_bills(): the position in profiles of the loop

session == <<authenticated, sso_id, user_data>>
locals == <<login_url, profiles_data, subscribers_data, subscriptions_data, unpaid_bills, idx>>
vars == <<authenticated, sso_id, user_data, credentials, hass, op, arg, pc, ret, result, entryAuth,
          authCalls, authRet, reqlog, last, stable, login_url, profiles_data, subscribers_data,
          subscriptions_data, unpaid_bills, idx>>

\* NoUnpaidBills with a record left in by_profile
NoUnpaidBills_stale ==
    [total_amount |-> 0, total_count |-> 0,
     by_profile |-> [k \in {<<7>>} |-> [amount |-> 100]]]

\* unpaid_bills = {"total_amount": 0.0, "total_count": 0, "by_profile": {}}
NoUnpaidBills == [total_amount |-> 0, total_count |-> 0, by_profile |-> EmptyDict]

NoLocals ==
    /\ login_url = ""
    /\ profiles_data = EmptyDict
    /\ subscribers_data = <<>>
    /\ subscriptions_data = EmptyDict
    /\ unpaid_bills = NoUnpaidBills
    /\ idx = 0

NoRequest == [ep |-> "none", arg |-> None, resp |-> None, off |-> 0]

\* the locals of a call that starts or has ended
DropLocals ==
    /\ login_url' = ""
    /\ profiles_data' = EmptyDict
    /\ subscribers_data' = <<>>
    /\ subscriptions_data' = EmptyDict
    /\ unpaid_bills' = NoUnpaidBills
    /\ idx' = 0

\* The portal of a run is free, or it is watched: then the run is calls of
\* authenticate(), a first get_data() whose requests and answers are recorded, and
\* a second get_data() in which every request that the first one issued gets the
\* answer it got then, on a host whose time zone has not changed.
Free == [mode |-> "free", answers |-> <<>>, first |-> None]
Watched == [mode |-> "before", answers |-> <<>>, first |-> None]

\* entry.data[CONF_USERNAME], entry.data[CONF_PASSWORD]
EntryData == [username |-> "user", password |-> "secret"]

\* no config entry is being set up
NoEntry == [stage |-> "none", coordinator |-> FALSE, stored |-> FALSE]

\* OrangeAPI.__init__
NewSession ==
    /\ credentials = EntryData
    /\ hass = NoEntry
    /\ authenticated = FALSE
    /\ sso_id = None
    /\ user_data = EmptyDict
    /\ op = "none" /\ arg = None /\ pc = "idle"
    /\ ret = "none" /\ result = None
    /\ entryAuth = FALSE /\ authCalls = 0 /\ authRet = "none"
    /\ reqlog = <<>> /\ last = NoRequest
    /\ NoLocals

Init == NewSession /\ stable = Free

InitStable == NewSession /\ stable = Watched

\* the host calls a method only when no call is running
Idle == pc \in {"idle", "done"}

\* how a request ended, for the log: 0 stands for ClientError
Ended(r) == IF IsError(r) THEN 0 ELSE r.status

\* the unpaid balance an invoiceInfo response carries: its totalBalanceAmount when
\* that is a number above zero, None otherwise
UnpaidOf(r) ==
    LET d == Get(r.body, "data", None)
        b == Get(d, "totalBalanceAmount", None)
    IN  IF d # None /\ b.t = "num" /\ b.v > 0 THEN b ELSE None

\* The log keeps, of every request, its endpoint, the profile id it is about
\* and how it ended; of a 200 response to the profiles, subscribers and
\* subscriptionsSummary requests the body; and of a 200 response to an
\* invoiceInfo request the unpaid balance.  last keeps the last request whole,
\* with the offset from UTC of the host when the code formatted a date of it.
KeptArg(ep, a) == IF ep \in {"landing", "login"} THEN None ELSE a

KeptBody(ep, r) ==
    IF IsError(r) \/ r.status # HTTP_OK THEN None
    ELSE IF ep \in {"profiles", "subscribers", "subscriptionsSummary"} THEN r.body
    ELSE IF ep = "invoiceInfo" THEN UnpaidOf(r)
    ELSE None

\* the number of requests to ep the call has issued
Asked(ep) == Cardinality({i \in DOMAIN reqlog : reqlog[i].ep = ep})

\* what the watched portal answers: in the second get_data() the answer of the
\* first one to the same request, if it issued it
Answers(ep, r, off) ==
    LET rec == SelectSeq(stable.answers, LAMBDA e : e.ep = ep)
        k == Asked(ep) + 1
    IN  /\ (stable.mode = "second" /\ k <= Len(rec))
               => r = rec[k].resp /\ off = rec[k].off
        /\ (stable.mode # "free" /\ ~IsError(r) /\ r.status = HTTP_OK)
               => /\ ep = "profiles" => Len(r.body.profiles) <= MaxStableProfiles
                  /\ ep = "subscribers" => Len(r.body) <= MaxStableRecords
                  /\ ep = "subscriptionsSummary" => Len(r.body.data) <= MaxStableRecords

RequestAt(ep, a, r, off) ==
    /\ Answers(ep, r, off)
    /\ UNCHANGED <<credentials, hass>>
    /\ stable' = IF stable.mode = "first"
                 THEN [stable EXCEPT !.answers = Append(@, [ep |-> ep, resp |-> r, off |-> off])]
                 ELSE stable
    /\ reqlog' = Append(reqlog, [ep |-> ep, arg |-> KeptArg(ep, a), res |-> Ended(r),
                                 body |-> KeptBody(ep, r)])
    /\ last' = [ep |-> ep, arg |-> a, resp |-> r, off |-> off]

Request(ep, a, r) == RequestAt(ep, a, r, 0)

Raised(exc) == [exc |-> exc]

\* the call ends: its frame is dropped
EndCall(how, value) ==
    /\ pc' = "done"
    /\ ret' = how
    /\ result' = value
    /\ DropLocals

\* the call goes on to its next request
GoOn(next) ==
    /\ pc' = next
    /\ UNCHANGED <<ret, result>>

\* the first request of the body of each method
BodyPc(o) ==
    CASE o = "get_data" -> "profiles"
      [] o = "get_profile_invoices" -> "invoiceInfo"
      [] o = "get_profile_transactions" -> "transactions"

\* NeedsAuth without the test of self._authenticated
NeedsAuth_always == TRUE

\* `if not self._authenticated: await self.authenticate()`
NeedsAuth == ~authenticated

\* the start of a call of method o with argument a; withAuth: it starts with
\* authenticate()
Call(o, a, withAuth) ==
    /\ Idle
    /\ UNCHANGED credentials
    /\ stable.mode # "second"
    /\ stable.mode = "first" => o = "get_data"
    /\ stable' = CASE stable.mode = "before" /\ o = "get_data"
                        -> [stable EXCEPT !.mode = "first"]
                    [] stable.mode = "first"
                        -> [stable EXCEPT !.mode = "second",
                                          !.first = [ret |-> ret, result |-> result]]
                    [] OTHER -> stable
    /\ op' = o /\ arg' = a
    /\ entryAuth' = authenticated
    /\ authCalls' = IF withAuth THEN 1 ELSE 0
    /\ authRet' = "none"
    /\ reqlog' = <<>> /\ last' = NoRequest
    /\ ret' = "none" /\ result' = None
    /\ pc' = IF withAuth THEN "landing" ELSE BodyPc(o)
    /\ DropLocals
    /\ UNCHANGED session

\* a call by the host outside async_setup_entry
StartCall(o, a, withAuth) == Call(o, a, withAuth) /\ UNCHANGED hass

\* -------------------------------------------------------------- authenticate

\* authenticate() returns b to its caller: the host, or the method that called
\* it and drops the value (`await self.authenticate()`)
AuthReturns(b) ==
    /\ authRet' = IF b THEN "true" ELSE "false"
    /\ IF op = "authenticate"
       THEN EndCall("returned", Bool(b))
       ELSE /\ GoOn(BodyPc(op))
            /\ DropLocals

\* AuthRaises with handlers that return False in place of `raise`
AuthRaises_swallow(exc) == AuthReturns(FALSE)

\* AuthRaises with a caller that catches the exception and goes on to its body
AuthRaises_goesOn(exc) ==
    /\ authRet' = "raised"
    /\ IF op = "authenticate"
       THEN EndCall("raised", Raised(exc))
       ELSE /\ GoOn(BodyPc(op))
            /\ DropLocals

\* authenticate() raises: `raise` in its handlers, and no caller catches it
AuthRaises(exc) ==
    /\ authRet' = "raised"
    /\ EndCall("raised", Raised(exc))

\* IsUserLogged trusting the 200 of the login POST
IsUserLogged_post200(body) == TRUE

\* `user_data and user_data.get("data", {}).get("isUserLogged")`
IsUserLogged(body) ==
    /\ body # EmptyDict
    /\ Truthy(Get(Get(body, "data", EmptyDict), "isUserLogged", None))

\* CurrentUserOf reading one level too high
CurrentUserOf_data(body) == Get(body, "data", EmptyDict)

\* user_data.get("data", {}).get("currentUser", {})
CurrentUserOf(body) == Get(Get(body, "data", EmptyDict), "currentUser", EmptyDict)

\* the host calls authenticate()
authenticate == StartCall("authenticate", None, TRUE)

\* authenticate_get with a login URL that is a constant
authenticate_get_fixedUrl ==
    /\ pc = "landing"
    /\ \E r \in Responses({[url |-> u] : u \in LoginUrls}) :
         /\ Request("landing", None, r)
         /\ IF IsError(r) THEN AuthRaises("ClientError")
            ELSE IF r.status # HTTP_OK THEN AuthReturns(FALSE)
            ELSE /\ login_url' = "login?ak=1"
                 /\ GoOn("post")
                 /\ UNCHANGED <<authRet, profiles_data, subscribers_data,
                                subscriptions_data, unpaid_bills, idx>>
    /\ UNCHANGED <<session, op, arg, entryAuth, authCalls>>

\* step 1: GET the account page, following the redirects to the login page
authenticate_get ==
    /\ pc = "landing"
    /\ \E r \in Responses({[url |-> u] : u \in LoginUrls}) :
         /\ Request("landing", None, r)
         /\ IF IsError(r) THEN AuthRaises("ClientError")
            ELSE IF r.status # HTTP_OK THEN AuthReturns(FALSE)
            ELSE /\ login_url' = r.body.url
                 /\ GoOn("post")
                 /\ UNCHANGED <<authRet, profiles_data, subscribers_data,
                                subscriptions_data, unpaid_bills, idx>>
    /\ UNCHANGED <<session, op, arg, entryAuth, authCalls>>

\* authenticate_post going on to the verification whatever the status
authenticate_post_lenient ==
    /\ pc = "post"
    /\ \E r \in Responses({None}) :
         /\ Request("login", Str(login_url), r)
         /\ IF IsError(r) THEN AuthRaises("ClientError")
            ELSE /\ GoOn("userData")
                 /\ UNCHANGED <<authRet, locals>>
    /\ UNCHANGED <<session, op, arg, entryAuth, authCalls>>

\* step 2: POST the credentials to login_url
authenticate_post ==
    /\ pc = "post"
    /\ \E r \in Responses({None}) :
         /\ Request("login", Str(login_url), r)
         /\ IF IsError(r) THEN AuthRaises("ClientError")
            ELSE IF r.status # HTTP_OK THEN AuthReturns(FALSE)
            ELSE /\ GoOn("userData")
                 /\ UNCHANGED <<authRet, locals>>
    /\ UNCHANGED <<session, op, arg, entryAuth, authCalls>>

\* fetch_user_data returning False on a status other than 200
fetch_user_data_false ==
    /\ pc = "userData"
    /\ \E r \in Responses(UserDataBodies) :
         /\ Request("userData", None, r)
         /\ IF IsError(r)
            THEN AuthRaises("ClientError") /\ UNCHANGED session
            ELSE IF r.status = HTTP_OK /\ IsUserLogged(r.body)
            THEN /\ authenticated' = TRUE
                 /\ sso_id' = Get(CurrentUserOf(r.body), "ssoId", None)
                 /\ user_data' = CurrentUserOf(r.body)
                 /\ AuthReturns(TRUE)
            ELSE AuthReturns(FALSE) /\ UNCHANGED session
    /\ UNCHANGED <<op, arg, entryAuth, authCalls>>

\* fetch_user_data logging the session out when the user is not logged in
fetch_user_data_clears ==
    /\ pc = "userData"
    /\ \E r \in Responses(UserDataBodies) :
         /\ Request("userData", None, r)
         /\ IF IsError(r)
            THEN AuthRaises("ClientError") /\ UNCHANGED session
            ELSE IF r.status # HTTP_OK
            THEN AuthRaises("Exception") /\ UNCHANGED session
            ELSE IF IsUserLogged(r.body)
            THEN /\ authenticated' = TRUE
                 /\ sso_id' = Get(CurrentUserOf(r.body), "ssoId", None)
                 /\ user_data' = CurrentUserOf(r.body)
                 /\ AuthReturns(TRUE)
            ELSE /\ authenticated' = FALSE
                 /\ sso_id' = None
                 /\ user_data' = EmptyDict
                 /\ AuthReturns(FALSE)
    /\ UNCHANGED <<op, arg, entryAuth, authCalls>>

\* step 3: _fetch_user_data() and the check of isUserLogged
fetch_user_data ==
    /\ pc = "userData"
    /\ \E r \in Responses(UserDataBodies) :
         /\ Request("userData", None, r)
         /\ IF IsError(r)
            THEN AuthRaises("ClientError") /\ UNCHANGED session
            ELSE IF r.status # HTTP_OK
            THEN AuthRaises("Exception") /\ UNCHANGED session
            ELSE IF IsUserLogged(r.body)
            THEN /\ authenticated' = TRUE
                 /\ sso_id' = Get(CurrentUserOf(r.body), "ssoId", None)
                 /\ user_data' = CurrentUserOf(r.body)
                 /\ AuthReturns(TRUE)
            ELSE AuthReturns(FALSE) /\ UNCHANGED session
    /\ UNCHANGED <<op, arg, entryAuth, authCalls>>

\* ------------------------------------------------------------------ get_data

\* bool(d) of a dict or None
DictTruthy(d) == d # None /\ DOMAIN d # {}

\* d[k] = v
Put(d, k, v) == [x \in DOMAIN d \cup {k} |-> IF x = k THEN v ELSE d[x]]

\* `profiles_data.get("profiles", []) if profiles_data else []`
ProfilesList(pd) == IF pd # EmptyDict THEN Get(pd, "profiles", <<>>) ELSE <<>>

\* `profile_id = profile.get("id")`, `if not profile_id: continue`
Skipped(profile) == ~Truthy(Get(profile, "id", None))

\* the position of the first profile from position i on that the loop does not
\* skip, 0 when it skips them all
NextFetch(profiles, i) ==
    LET S == {j \in i..Len(profiles) : ~Skipped(profiles[j])}
    IN  IF S = {} THEN 0 ELSE CHOOSE j \in S : \A k \in S : j <= k

\* IsUnpaid with >= for >
IsUnpaid_ge(total_balance) == total_balance >= 0

\* `if total_balance > 0`
IsUnpaid(total_balance) == total_balance > 0

\* the record of a profile with an unpaid balance
BillRecord(profile, invoice_data, total_balance, off) ==
    LET due_date_ts == Get(invoice_data, "dueDate", None)
    IN  [amount |-> total_balance,
         services |-> OrZero(Get(invoice_data, "totalBalanceServices", Num(0))),
         installments |-> OrZero(Get(invoice_data, "totalBalanceInstallments", Num(0))),
         due_date |-> IF Truthy(due_date_ts)
                      THEN FromTimestampDate(due_date_ts, off) ELSE None,
         has_invoices |-> Get(invoice_data, "hasInvoicesOnProfile", Bool(FALSE)),
         profile_name |-> Get(profile, "name", Str("Unknown"))]

\* the body of the loop of _fetch_unpaid_bills for a 200 response
AddInvoice(ub, profile, body, off) ==
    LET invoice_data == Get(body, "data", None)
        total_balance == OrZero(Get(invoice_data, "totalBalanceAmount", Num(0)))
    IN  IF ~DictTruthy(invoice_data) THEN ub
        ELSE IF IsUnpaid(total_balance)
        THEN [total_amount |-> ub.total_amount + total_balance,
              total_count |-> ub.total_count + 1,
              by_profile |-> Put(ub.by_profile, StrOfInt(profile.id.v),
                                 BillRecord(profile, invoice_data, total_balance, off))]
        ELSE ub

\* the loop formats the dueDate of the response r: it has an unpaid balance and a
\* dueDate
FormatsDueDate(r) ==
    /\ ~IsError(r) /\ r.status = HTTP_OK
    /\ LET invoice_data == Get(r.body, "data", None)
       IN  /\ DictTruthy(invoice_data)
           /\ IsUnpaid(OrZero(Get(invoice_data, "totalBalanceAmount", Num(0))))
           /\ Truthy(Get(invoice_data, "dueDate", None))

\* SumPoints counting the records
SumPoints_count(l) == Len(l)

\* the sum of totalPointsInOnlineShop over the records, 0.0 where it is missing
RECURSIVE SumPoints(_)
SumPoints(l) ==
    IF l = <<>> THEN 0
    ELSE Get(Head(l), "totalPointsInOnlineShop", Num(0)).v + SumPoints(Tail(l))

\* `if subscriptions_data and subscriptions_data.get("data")`
LoyaltyPoints(sd) ==
    IF sd # EmptyDict /\ Get(sd, "data", <<>>) # <<>>
    THEN SumPoints(sd.data) ELSE 0

\* TotalProfiles counting only the profiles that have an id
TotalProfiles_withId(profiles_list) ==
    Cardinality({j \in DOMAIN profiles_list : ~Skipped(profiles_list[j])})

\* `len(profiles_list)`
TotalProfiles(profiles_list) == Len(profiles_list)

\* the dict get_data returns
Snapshot(ud, pd, subs, sd, ub) ==
    [user |-> [sso_id |-> Get(ud, "ssoId", None),
               username |-> Get(ud, "username", None),
               email |-> Get(ud, "email", None),
               first_name |-> Get(ud, "firstName", None),
               last_name |-> Get(ud, "lastName", None),
               primary_msisdn |-> Get(ud, "primaryMsisdn", None),
               customer_type |-> Get(ud, "customerType", None)],
     profiles |-> ProfilesList(pd),
     subscribers |-> IF subs # <<>> THEN subs ELSE <<>>,
     subscriptions_summary |-> IF sd # EmptyDict THEN Get(sd, "data", <<>>) ELSE <<>>,
     unpaid_bills |-> ub,
     summary |-> [total_profiles |-> TotalProfiles(ProfilesList(pd)),
                  total_subscribers |-> IF subs # <<>> THEN Len(subs) ELSE 0,
                  total_loyalty_points |-> LoyaltyPoints(sd),
                  total_unpaid_amount |-> ub.total_amount,
                  total_unpaid_count |-> ub.total_count]]

\* `except Exception as err: ... raise` of get_data
GetDataRaises(exc) == EndCall("raised", Raised(exc))

\* the loop of _fetch_unpaid_bills goes on from position i with unpaid_bills ub,
\* to the next request or, when no profile is left, to the return of get_data
LoopFrom(i, sd, ub) ==
    LET n == NextFetch(ProfilesList(profiles_data), i)
    IN  IF n = 0
        THEN EndCall("returned", Snapshot(user_data, profiles_data, subscribers_data, sd, ub))
        ELSE /\ GoOn("invoice")
             /\ idx' = n
             /\ unpaid_bills' = ub
             /\ subscriptions_data' = sd
             /\ UNCHANGED <<login_url, profiles_data, subscribers_data>>

\* the host calls get_data()
get_data == StartCall("get_data", None, NeedsAuth)

\* fetch_profiles taking a status other than 200 for the end of the session
fetch_profiles_expires ==
    /\ pc = "profiles"
    /\ \E r \in Responses(ProfilesBodies) :
         /\ Request("profiles", None, r)
         /\ IF IsError(r) THEN GetDataRaises("ClientError") /\ UNCHANGED session
            ELSE /\ profiles_data' = IF r.status = HTTP_OK THEN r.body ELSE EmptyDict
                 /\ IF r.status = HTTP_OK THEN UNCHANGED session
                    ELSE authenticated' = FALSE /\ sso_id' = None /\ user_data' = EmptyDict
                 /\ GoOn("subscribers")
                 /\ UNCHANGED <<login_url, subscribers_data, subscriptions_data,
                                unpaid_bills, idx>>
    /\ UNCHANGED <<op, arg, entryAuth, authCalls, authRet>>

\* _fetch_profiles
fetch_profiles ==
    /\ pc = "profiles"
    /\ \E r \in Responses(ProfilesBodies) :
         /\ Request("profiles", None, r)
         /\ IF IsError(r) THEN GetDataRaises("ClientError")
            ELSE /\ profiles_data' = IF r.status = HTTP_OK THEN r.body ELSE EmptyDict
                 /\ GoOn("subscribers")
                 /\ UNCHANGED <<login_url, subscribers_data, subscriptions_data,
                                unpaid_bills, idx>>
    /\ UNCHANGED <<session, op, arg, entryAuth, authCalls, authRet>>

\* fetch_subscribers raising on a status other than 200, as get_profile_invoices does
fetch_subscribers_strict ==
    /\ pc = "subscribers"
    /\ \E r \in Responses(SubscribersBodies) :
         /\ Request("subscribers", None, r)
         /\ IF IsError(r) THEN GetDataRaises("ClientError")
            ELSE IF r.status # HTTP_OK THEN GetDataRaises("Exception")
            ELSE /\ subscribers_data' = r.body
                 /\ GoOn("subscriptionsSummary")
                 /\ UNCHANGED <<login_url, profiles_data, subscriptions_data,
                                unpaid_bills, idx>>
    /\ UNCHANGED <<session, op, arg, entryAuth, authCalls, authRet>>

\* _fetch_subscribers
fetch_subscribers ==
    /\ pc = "subscribers"
    /\ \E r \in Responses(SubscribersBodies) :
         /\ Request("subscribers", None, r)
         /\ IF IsError(r) THEN GetDataRaises("ClientError")
            ELSE /\ subscribers_data' = IF r.status = HTTP_OK THEN r.body ELSE <<>>
                 /\ GoOn("subscriptionsSummary")
                 /\ UNCHANGED <<login_url, profiles_data, subscriptions_data,
                                unpaid_bills, idx>>
    /\ UNCHANGED <<session, op, arg, entryAuth, authCalls, authRet>>

\* fetch_subscriptions_summary raising on a status other than 200
fetch_subscriptions_summary_strict ==
    /\ pc = "subscriptionsSummary"
    /\ \E r \in Responses(SummaryBodies) :
         /\ Request("subscriptionsSummary", None, r)
         /\ IF IsError(r) THEN GetDataRaises("ClientError")
            ELSE IF r.status # HTTP_OK THEN GetDataRaises("Exception")
            ELSE LoopFrom(1, r.body, NoUnpaidBills)
    /\ UNCHANGED <<session, op, arg, entryAuth, authCalls, authRet>>

\* _fetch_subscriptions_summary, then _fetch_unpaid_bills up to its first request
fetch_subscriptions_summary ==
    /\ pc = "subscriptionsSummary"
    /\ \E r \in Responses(SummaryBodies) :
         /\ Request("subscriptionsSummary", None, r)
         /\ IF IsError(r) THEN GetDataRaises("ClientError")
            ELSE LoopFrom(1, IF r.status = HTTP_OK THEN r.body ELSE EmptyDict,
                          NoUnpaidBills)
    /\ UNCHANGED <<session, op, arg, entryAuth, authCalls, authRet>>

\* InvoiceOutcome without the try statement: the error leaves the loop
InvoiceOutcome_noTry(profile, r, off) ==
    IF IsError(r) THEN GetDataRaises("ClientError")
    ELSE IF r.status = HTTP_OK
    THEN LoopFrom(idx + 1, subscriptions_data, AddInvoice(unpaid_bills, profile, r.body, off))
    ELSE LoopFrom(idx + 1, subscriptions_data, unpaid_bills)

\* InvoiceOutcome asking again for the same profile after an error
InvoiceOutcome_retry(profile, r, off) ==
    IF IsError(r) THEN LoopFrom(idx, subscriptions_data, unpaid_bills)
    ELSE IF r.status = HTTP_OK
    THEN LoopFrom(idx + 1, subscriptions_data, AddInvoice(unpaid_bills, profile, r.body, off))
    ELSE LoopFrom(idx + 1, subscriptions_data, unpaid_bills)

\* the try statement in the loop, for the profile at idx and the outcome r of its
\* request: `except Exception: continue`, the 200 branch, the warning of the
\* other statuses
InvoiceOutcome(profile, r, off) ==
    IF IsError(r) THEN LoopFrom(idx + 1, subscriptions_data, unpaid_bills)
    ELSE IF r.status = HTTP_OK
    THEN LoopFrom(idx + 1, subscriptions_data, AddInvoice(unpaid_bills, profile, r.body, off))
    ELSE LoopFrom(idx + 1, subscriptions_data, unpaid_bills)

\* one request of the loop of _fetch_unpaid_bills, for profiles[idx]; the local
\* time of the host is read only when a dueDate is formatted
fetch_unpaid_bills ==
    /\ pc = "invoice"
    /\ LET profile == ProfilesList(profiles_data)[idx]
       IN  \E r \in Responses(InvoiceBodies) :
             \E off \in (IF FormatsDueDate(r) THEN TzOffsets ELSE {0}) :
               /\ RequestAt("invoiceInfo", profile.id, r, off)
               /\ InvoiceOutcome(profile, r, off)
    /\ UNCHANGED <<session, op, arg, entryAuth, authCalls, authRet>>

\* ------------------------------- get_profile_invoices, get_profile_transactions

\* the profile ids the host asks for
ProfileIds == {Num(100000001), Num(2)}

\* the host calls get_profile_invoices(profile_id)
get_profile_invoices ==
    \E profile_id \in ProfileIds : StartCall("get_profile_invoices", profile_id, NeedsAuth)

\* the host calls get_profile_transactions(profile_id)
get_profile_transactions ==
    \E profile_id \in ProfileIds : StartCall("get_profile_transactions", profile_id, NeedsAuth)

\* ProfileRequest degrading a status other than 200 to an empty result, as the
\* section fetches of get_data do
ProfileRequest_lenient(ep, bodies) ==
    /\ pc = ep
    /\ \E r \in Responses(bodies) :
         /\ Request(ep, arg, r)
         /\ IF IsError(r) THEN EndCall("raised", Raised("ClientError"))
            ELSE IF r.status = HTTP_OK THEN EndCall("returned", r.body)
            ELSE EndCall("returned", EmptyDict)
    /\ UNCHANGED <<session, op, arg, entryAuth, authCalls, authRet>>

\* the request of get_profile_invoices or get_profile_transactions
ProfileRequest(ep, bodies) ==
    /\ pc = ep
    /\ \E r \in Responses(bodies) :
         /\ Request(ep, arg, r)
         /\ IF IsError(r) THEN EndCall("raised", Raised("ClientError"))
            ELSE IF r.status = HTTP_OK THEN EndCall("returned", r.body)
            ELSE EndCall("raised", Raised("Exception"))
    /\ UNCHANGED <<session, op, arg, entryAuth, authCalls, authRet>>

get_profile_invoices_request == ProfileRequest("invoiceInfo", InvoiceBodies)

get_profile_transactions_request == ProfileRequest("transactions", TransactionsBodies)

\* async_update_data of async_setup_entry, given how get_data() ended: its value,
\* or UpdateFailed for an exception
async_update_data(how, value) ==
    IF how = "raised" THEN Raised("UpdateFailed") ELSE value

\* ------------------------------------------------------------ async_setup_entry

\* the state of the OrangeAPI object and of the call that has ended on it
api == <<authenticated, sso_id, user_data, credentials, op, arg, pc, ret, result,
         entryAuth, authCalls, authRet, reqlog, last, stable, login_url, profiles_data,
         subscribers_data, subscriptions_data, unpaid_bills, idx>>

\* SetupAborts taking a False of authenticate() for a failure too
SetupAborts_onFalse(how, value) == how = "raised" \/ value = Bool(FALSE)

\* `except Exception as err: ... raise ConfigEntryNotReady from err` around
\* `await api.authenticate()`, whose value is dropped
SetupAborts(how, value) == how = "raised"

\* async_setup_entry: a new OrangeAPI, and `await api.authenticate()`
async_setup_entry ==
    /\ hass.stage = "none" /\ op = "none"
    /\ Call("authenticate", None, TRUE)
    /\ hass' = [hass EXCEPT !.stage = "authenticate"]

\* authenticate() has raised: ConfigEntryNotReady
async_setup_entry_not_ready ==
    /\ hass.stage = "authenticate" /\ pc = "done"
    /\ SetupAborts(ret, result)
    /\ hass' = [hass EXCEPT !.stage = "not_ready"]
    /\ UNCHANGED api

\* authenticate() has returned: the coordinator is created and its first refresh
\* calls async_update_data, which calls get_data()
async_config_entry_first_refresh ==
    /\ hass.stage = "authenticate" /\ pc = "done"
    /\ ~SetupAborts(ret, result)
    /\ Call("get_data", None, NeedsAuth)
    /\ hass' = [hass EXCEPT !.stage = "first_refresh", !.coordinator = TRUE]

\* The first refresh has ended with a failed update and does not return to
\* async_setup_entry.  The coordinator is the host's, not this repository's: after
\* a failed update the refresh raises or returns, so both steps are possible.
async_config_entry_first_refresh_raises ==
    /\ hass.stage = "first_refresh" /\ pc = "done"
    /\ async_update_data(ret, result) = Raised("UpdateFailed")
    /\ hass' = [hass EXCEPT !.stage = "not_ready"]
    /\ UNCHANGED api

\* the first refresh has returned: hass.data[DOMAIN][entry.entry_id] = {...}
async_setup_entry_store ==
    /\ hass.stage = "first_refresh" /\ pc = "done"
    /\ hass' = [hass EXCEPT !.stage = "stored", !.stored = TRUE]
    /\ UNCHANGED api

Next ==
    \/ authenticate
    \/ authenticate_get
    \/ authenticate_post
    \/ fetch_user_data
    \/ get_data
    \/ fetch_profiles
    \/ fetch_subscribers
    \/ fetch_subscriptions_summary
    \/ fetch_unpaid_bills
    \/ get_profile_invoices
    \/ get_profile_invoices_request
    \/ get_profile_transactions
    \/ get_profile_transactions_request

Spec == Init /\ [][Next]_vars

\* the calls of a run with a watched portal
NextStable ==
    \/ authenticate
    \/ authenticate_get
    \/ authenticate_post
    \/ fetch_user_data
    \/ get_data
    \/ fetch_profiles
    \/ fetch_subscribers
    \/ fetch_subscriptions_summary
    \/ fetch_unpaid_bills

SpecStable == InitStable /\ [][NextStable]_vars

\* the setup of a config entry
NextSetup ==
    \/ async_setup_entry
    \/ async_setup_entry_not_ready
    \/ async_config_entry_first_refresh
    \/ async_config_entry_first_refresh_raises
    \/ async_setup_entry_store
    \/ authenticate_get
    \/ authenticate_post
    \/ fetch_user_data
    \/ fetch_profiles
    \/ fetch_subscribers
    \/ fetch_subscriptions_summary
    \/ fetch_unpaid_bills

SpecSetup == Init /\ [][NextSetup]_vars

\* ------------------------------------------------------------------ claims

Sections == {"profiles", "subscribers", "subscriptionsSummary"}
DataEndpoints == Sections \cup {"invoiceInfo"}

\* the positions in the log of the requests to endpoint ep
At(ep) == {i \in DOMAIN reqlog : reqlog[i].ep = ep}

InGetData == op = "get_data"
Returned == pc = "done" /\ ret = "returned"
GaveSnapshot == InGetData /\ Returned

\* unpaid_bills as far as the call has built it
CurBills == IF GaveSnapshot THEN result.unpaid_bills ELSE unpaid_bills

RECURSIVE SumAmounts(_, _)
SumAmounts(by_profile, keys) ==
    IF keys = {} THEN 0
    ELSE LET k == CHOOSE x \in keys : TRUE
         IN  by_profile[k].amount + SumAmounts(by_profile, keys \ {k})

\* C1: a get_data() that starts unauthenticated and whose authenticate() returns
\* false issues no profiles, subscribers, subscriptions-summary or invoice request
\* and returns no snapshot.
C1_RejectedLoginIsFatal ==
    (InGetData /\ ~entryAuth /\ authRet = "false")
        => /\ \A i \in DOMAIN reqlog : reqlog[i].ep \notin DataEndpoints
           /\ ret # "returned"

\* what the snapshot holds of a section, given the log entry of its request
SectionValue(e) ==
    IF e.res # HTTP_OK THEN <<>>
    ELSE CASE e.ep = "profiles" -> e.body.profiles
           [] e.ep = "subscribers" -> e.body
           [] e.ep = "subscriptionsSummary" -> e.body.data

SectionIn(snapshot, ep) ==
    CASE ep = "profiles" -> snapshot.profiles
      [] ep = "subscribers" -> snapshot.subscribers
      [] ep = "subscriptionsSummary" -> snapshot.subscriptions_summary

C3_TotalsMatchByProfile ==
    (GaveSnapshot /\ authenticated) =>
        LET by_profile == result.unpaid_bills.by_profile
        IN  /\ result.summary.total_unpaid_amount
                   = SumAmounts(by_profile, DOMAIN by_profile)
            /\ result.summary.total_unpaid_count = Cardinality(DOMAIN by_profile)

\* C4: every record of by_profile has an amount above zero, and it is the unpaid
\* balance of an invoiceInfo response for its profile: a response with a zero,
\* negative, null or absent totalBalanceAmount, or with no data, gives no record.
C4_RecordsAreUnpaid ==
    InGetData =>
        \A k \in DOMAIN CurBills.by_profile :
            /\ CurBills.by_profile[k].amount > 0
            /\ \E i \in At("invoiceInfo") :
                   /\ StrOfInt(reqlog[i].arg.v) = k
                   /\ reqlog[i].body = Num(CurBills.by_profile[k].amount)

\* the response to the last request carries no unpaid balance in one of the ways
\* the claim lists
NoBalance(r) ==
    /\ ~IsError(r) /\ r.status = HTTP_OK
    /\ r.body \in { [data |-> None],
                    [data |-> [hasInvoicesOnProfile |-> Bool(FALSE)]],
                    [data |-> [totalBalanceAmount |-> None]],
                    [data |-> [totalBalanceAmount |-> Num(0)]],
                    [data |-> [totalBalanceAmount |-> Num(-500)]] }

\* a snapshot with a record for one profile and none for the profile whose invoice
\* had a negative balance
C4_Witness ==
    /\ GaveSnapshot
    /\ last.ep = "invoiceInfo" /\ NoBalance(last.resp)
    /\ last.resp.body.data = [totalBalanceAmount |-> Num(-500)]
    /\ DOMAIN result.unpaid_bills.by_profile = {StrOfInt(100000001)}
    /\ last.arg = Num(2)

\* the ids of the profiles of l that the loop does not skip, in order
RECURSIVE FetchedIds(_)
FetchedIds(l) ==
    IF l = <<>> THEN <<>>
    ELSE IF Skipped(Head(l)) THEN FetchedIds(Tail(l))
    ELSE <<Head(l).id>> \o FetchedIds(Tail(l))

RECURSIVE InvoiceArgs(_)
InvoiceArgs(log) ==
    IF log = <<>> THEN <<>>
    ELSE IF Head(log).ep = "invoiceInfo" THEN <<Head(log).arg>> \o InvoiceArgs(Tail(log))
    ELSE InvoiceArgs(Tail(log))

\* C5: when the invoice request of a profile fails, by a status other than 200 or
\* by an error, the loop goes on: the call ends with a snapshot, every profile
\* the loop does not skip has had its request, and by_profile has a record for
\* every profile whose request returned an unpaid balance.
C5_InvoiceFailureIsolated ==
    (InGetData /\ \E i \in At("invoiceInfo") : reqlog[i].res # HTTP_OK) =>
        /\ ret # "raised"
        /\ \A j \in At("invoiceInfo") :
               reqlog[j].body # None
                   => StrOfInt(reqlog[j].arg.v) \in DOMAIN CurBills.by_profile
        /\ pc = "done" => InvoiceArgs(reqlog) = FetchedIds(result.profiles)

\* the invoice request of the first profile met an error and the second profile
\* has its record
C5_Witness ==
    /\ GaveSnapshot
    /\ \E i, j \in At("invoiceInfo") :
           /\ i < j
           /\ reqlog[i].res = 0 /\ reqlog[i].arg = Num(2)
           /\ reqlog[j].body = Num(12941) /\ reqlog[j].arg = Num(100000001)
    /\ DOMAIN result.unpaid_bills.by_profile = {StrOfInt(100000001)}

\* the profiles request returned a list that is not empty and the subscribers
\* request ended in one of the ways of how
SubscribersFailed(how) ==
    /\ InGetData
    /\ \E i \in At("profiles") : reqlog[i].res = HTTP_OK /\ reqlog[i].body.profiles # <<>>
    /\ \E j \in At("subscribers") : reqlog[j].res \in how

\* the snapshot has the profiles the request returned and no subscribers
ProfilesWithoutSubscribers ==
    /\ \E i \in At("profiles") : result.profiles = reqlog[i].body.profiles
    /\ result.profiles # <<>>
    /\ result.subscribers = <<>>
    /\ result.summary.total_subscribers = 0

C7_FalseMeansUnauthenticated == authRet = "false" => ~authenticated

\* the body of a userData response says that the user is logged in
SaysLogged(body) ==
    /\ "data" \in DOMAIN body
    /\ "isUserLogged" \in DOMAIN body.data
    /\ body.data.isUserLogged = Bool(TRUE)

\* the last request got a response with status st
LastStatus(ep, st) == last.ep = ep /\ ~IsError(last.resp) /\ last.resp.status = st

\* authenticate() has returned false to its caller, without raising
ReturnedFalse ==
    /\ authRet = "false"
    /\ ret # "raised"
    /\ op = "authenticate" => Returned /\ result = Bool(FALSE)

\* C8: authenticate() returns false, and does not raise, when the landing GET gets
\* a status other than 200, when the login POST gets one, and when the login POST
\* gets 200 and the userData response has isUserLogged false or absent.  A 200 of
\* the login POST does not make it return: it returns true only after a userData
\* response that says the user is logged in.
C8_RejectedLoginReturnsFalse ==
    /\ LastStatus("landing", 401) => ReturnedFalse
    /\ LastStatus("login", 401) => ReturnedFalse
    /\ (LastStatus("userData", HTTP_OK) /\ ~SaysLogged(last.resp.body)) => ReturnedFalse
    /\ LastStatus("login", HTTP_OK) => authRet = "none" /\ pc = "userData"
    /\ (authRet = "true" /\ last.ep \in {"landing", "login", "userData"})
           => LastStatus("userData", HTTP_OK) /\ SaysLogged(last.resp.body)

\* the login POST got 200, the userData response has no isUserLogged, and
\* authenticate() has returned false to the host
C8_Witness ==
    /\ op = "authenticate" /\ Returned /\ result = Bool(FALSE)
    /\ \E i \in At("login") : reqlog[i].res = HTTP_OK
    /\ LastStatus("userData", HTTP_OK)
    /\ last.resp.body = [data |-> EmptyDict]

\* C9 as claimed: the identity is populated exactly when authenticated is true.
C9_IdentityIffAuthenticated == (user_data # EmptyDict) <=> authenticated

\* the currentUser object of a userData body, {} when it has none
CurrentUserIn(body) ==
    IF "data" \in DOMAIN body /\ "currentUser" \in DOMAIN body.data
    THEN body.data.currentUser ELSE EmptyDict

\* C9 amended: the identity is populated only when authenticated is true; when
\* an authenticate() has set authenticated, the identity is the currentUser
\* object of the userData response that verified the login, and it is empty when
\* that response had none.
C9_IdentityOnlyIfAuthenticated ==
    /\ (user_data # EmptyDict \/ sso_id # None) => authenticated
    /\ (authRet = "true" /\ last.ep = "userData")
           => /\ authenticated
              /\ user_data = CurrentUserIn(last.resp.body)
              /\ sso_id = Get(user_data, "ssoId", None)

C9_Witness ==
    /\ authenticated /\ authRet = "true" /\ last.ep = "userData"
    /\ user_data = CurrentUser1 /\ sso_id = Num(12345)

LazyMethods == {"get_data", "get_profile_invoices", "get_profile_transactions"}

\* C10: a call of get_data(), get_profile_invoices() or get_profile_transactions()
\* invokes authenticate() once when authenticated is false at its start and not at
\* all when it is true: the call never issues a second landing GET, whatever the
\* outcome of the first attempt, and none on an authenticated session.
C10_AuthenticateAtMostOnce ==
    op \in LazyMethods =>
        /\ authCalls = (IF entryAuth THEN 0 ELSE 1)
        /\ Cardinality(At("landing")) <= authCalls
        /\ Cardinality(At("login")) <= authCalls
        /\ Cardinality(At("userData")) <= authCalls
        /\ (authCalls = 1 /\ pc # "landing") => Cardinality(At("landing")) = 1
        /\ authCalls = 0 => authRet = "none"

\* a call that started unauthenticated, whose authenticate() returned false and
\* that went on to its end without a second attempt
C10_Witness ==
    /\ op = "get_profile_invoices" /\ pc = "done"
    /\ ~entryAuth /\ authRet = "false"
    /\ Cardinality(At("landing")) = 1
    /\ At("invoiceInfo") # {}

AuthEndpoints == {"landing", "login", "userData"}

\* C11: a transport error on the landing GET, the login POST or the userData GET
\* ends authenticate() with that error raised, and the error reaches the host:
\* the call does not return, and it leaves authenticated as it was at its start.
\* A false return of authenticate() comes only after responses: no request of that
\* attempt met a transport error.
C11_TransportErrorRaises ==
    /\ (last.ep \in AuthEndpoints /\ IsError(last.resp))
           => /\ authRet = "raised"
              /\ pc = "done" /\ ret = "raised" /\ result = Raised("ClientError")
              /\ authenticated = entryAuth
    /\ authRet = "false"
           => \A i \in DOMAIN reqlog : reqlog[i].ep \in AuthEndpoints => reqlog[i].res # 0

\* the login POST of an authenticate() of the host met a transport error
C11_Witness ==
    /\ op = "authenticate" /\ ~entryAuth
    /\ last.ep = "login" /\ IsError(last.resp)
    /\ ret = "raised" /\ ~authenticated

PerProfileMethods == {"get_profile_invoices", "get_profile_transactions"}

\* C12: get_profile_invoices() and get_profile_transactions() return the body of
\* the response when its status is 200 and only then; on another status they raise
\* Exception and return nothing, an empty result included.
C12_ProfileMethodsRaiseOnStatus ==
    (op \in PerProfileMethods /\ last.ep \in {"invoiceInfo", "transactions"}) =>
        /\ last.ep = BodyPc(op) /\ last.arg = arg
        /\ pc = "done"
        /\ LastStatus(last.ep, HTTP_OK) <=> ret = "returned"
        /\ ret = "returned" => result = last.resp.body
        /\ (~IsError(last.resp) /\ last.resp.status # HTTP_OK)
               => ret = "raised" /\ result = Raised("Exception")

\* get_profile_transactions() has raised on a 401 of an authenticated session
C12_Witness ==
    /\ op = "get_profile_transactions" /\ entryAuth
    /\ LastStatus("transactions", 401)
    /\ ret = "raised" /\ result = Raised("Exception")

\* C13: in every snapshot get_data() returns, summary.total_profiles is the length
\* of profiles, and both are 0 and empty when the profiles request got a status
\* other than 200.
C13_TotalProfilesIsLength ==
    GaveSnapshot =>
        /\ result.summary.total_profiles = Len(result.profiles)
        /\ \A i \in At("profiles") :
               /\ reqlog[i].res # HTTP_OK
                      => result.profiles = <<>> /\ result.summary.total_profiles = 0
               /\ reqlog[i].res = HTTP_OK => result.profiles = reqlog[i].body.profiles

\* authenticate() and then get_data(): a snapshot with two profiles, one of them
\* without an id
C13_Witness ==
    /\ GaveSnapshot /\ entryAuth
    /\ result.summary.total_profiles = 2
    /\ \E j \in DOMAIN result.profiles : Skipped(result.profiles[j])

John == [id |-> Num(100000001), name |-> Str("John Doe")]

JohnsInvoice ==
    [totalBalanceAmount |-> Num(12941), totalBalanceServices |-> Num(12941),
     dueDate |-> Millis(1771200000, 0), hasInvoicesOnProfile |-> Bool(TRUE)]

\* get_data() has fetched the invoice of John Doe, the only profile, and the
\* response has a balance of 129.41 and the dueDate 1771200000000
JohnsCase ==
    /\ InGetData /\ last.ep = "invoiceInfo" /\ last.arg = John.id
    /\ LastStatus("invoiceInfo", HTTP_OK) /\ last.resp.body = [data |-> JohnsInvoice]
    /\ \E i \in At("profiles") : reqlog[i].body = [profiles |-> <<John>>]

\* the snapshot has the record of John Doe with the due date d
JohnsRecord(d) ==
    /\ GaveSnapshot
    /\ DOMAIN result.unpaid_bills.by_profile = {StrOfInt(100000001)}
    /\ result.unpaid_bills.by_profile[StrOfInt(100000001)] =
           [amount |-> 12941, services |-> 12941, installments |-> 0, due_date |-> d,
            has_invoices |-> Bool(TRUE), profile_name |-> Str("John Doe")]
    /\ result.unpaid_bills.total_amount = 12941
    /\ result.unpaid_bills.total_count = 1

\* C15 as claimed: the example gives the record of amount 129.41 with due_date
\* "2026-02-15" and total_amount 129.41.
C15_JohnDoeExample == JohnsCase => JohnsRecord(Date(2026, 2, 15))

\* C15 amended: the example gives the record of amount 129.41 and total_amount
\* 129.41, and due_date is the date of the instant 1771200000000 ms, which is
\* 2026-02-16 00:00 UTC, in the local time of the host: "2026-02-16" on a host at
\* UTC or east of it, "2026-02-15" on a host west of UTC.
C15_DueDateIsLocalDate ==
    JohnsCase =>
        JohnsRecord(IF last.off < 0 THEN Date(2026, 2, 15) ELSE Date(2026, 2, 16))

\* the example on a host at UTC+2, the time of Romania in February
C15_Witness ==
    /\ JohnsCase /\ last.off = 7200
    /\ JohnsRecord(Date(2026, 2, 16))

\* the ids of the profiles of l whose id is not null, in order
RECURSIVE NonNullIds(_)
NonNullIds(l) ==
    IF l = <<>> THEN <<>>
    ELSE IF Get(Head(l), "id", None) = None THEN NonNullIds(Tail(l))
    ELSE <<Head(l).id>> \o NonNullIds(Tail(l))

\* C16: a get_data() (here: of an authenticated session) that returns has issued
\* one invoice request for every profile of the list whose id is not null, the id
\* 0 included, and none for a profile whose id is null or absent.
C16_EveryNonNullIdFetched ==
    (GaveSnapshot /\ entryAuth) => InvoiceArgs(reqlog) = NonNullIds(result.profiles)

IsPrefix(s, t) == Len(s) <= Len(t) /\ \A i \in DOMAIN s : s[i] = t[i]

\* the order of the requests of get_data() on an authenticated session
DataOrder == <<"profiles", "subscribers", "subscriptionsSummary">>

\* the profile list the profiles request of this call returned
FetchedProfiles ==
    IF reqlog # <<>> /\ reqlog[1].ep = "profiles" /\ reqlog[1].res = HTTP_OK
    THEN reqlog[1].body.profiles ELSE <<>>

Got200(e, ep) == e.ep = ep /\ e.res = HTTP_OK

\* C18: a step sets authenticated only as the end of an authenticate() whose
\* requests were, in this order, the landing GET with 200, the login POST with 200
\* and the userData GET with 200 and isUserLogged true; and in every call the login
\* POST follows a landing GET that got 200 and the userData GET follows a login
\* POST that got 200.
C18_SetOnlyAfterVerification ==
    [][ /\ (~authenticated /\ authenticated')
              => /\ pc = "userData" /\ authRet' = "true"
                 /\ Len(reqlog') = 3
                 /\ Got200(reqlog'[1], "landing")
                 /\ Got200(reqlog'[2], "login")
                 /\ Got200(reqlog'[3], "userData")
                 /\ last'.ep = "userData" /\ SaysLogged(last'.resp.body)
        /\ \A i \in DOMAIN reqlog' :
               /\ reqlog'[i].ep = "login" => i = 2 /\ Got200(reqlog'[1], "landing")
               /\ reqlog'[i].ep = "userData"
                      => i = 3 /\ Got200(reqlog'[1], "landing") /\ Got200(reqlog'[2], "login")
      ]_vars

\* get_profile_invoices() has just authenticated the session
C18_Witness ==
    /\ op = "get_profile_invoices" /\ pc = "invoiceInfo"
    /\ ~entryAuth /\ authenticated /\ authRet = "true"
    /\ Len(reqlog) = 3 /\ Got200(reqlog[3], "userData")

\* C19: the login POST of an authenticate() goes to the final URL of the landing
\* GET of the same call, which is the request before it; an attempt starts with no
\* login URL, so that none is carried over from an earlier attempt.
C19_PostGoesToLandingUrl ==
    [][ /\ pc = "post"
              => /\ LastStatus("landing", HTTP_OK)
                 /\ last'.ep = "login"
                 /\ last'.arg = Str(last.resp.body.url)
        /\ pc' = "landing" => login_url' = ""
      ]_vars

\* a second attempt, on a session an earlier attempt has authenticated, posts to
\* the URL its own landing GET reached
C19_Witness ==
    /\ op = "authenticate" /\ entryAuth
    /\ last.ep = "login" /\ last.arg = Str("login?ak=2")
    /\ ~IsError(last.resp)

\* C20: when the authenticate() that get_data() calls raises, get_data() ends with
\* that exception (ClientError for a transport error), returns no snapshot and has
\* issued no profiles, subscribers, subscriptions-summary or invoice request, and
\* async_update_data raises UpdateFailed.
C20_AuthErrorAbortsCycle ==
    (InGetData /\ authRet = "raised") =>
        /\ pc = "done" /\ ret = "raised"
        /\ last.ep \in AuthEndpoints
        /\ result = Raised(IF IsError(last.resp) THEN "ClientError" ELSE "Exception")
        /\ \A i \in DOMAIN reqlog : reqlog[i].ep \notin DataEndpoints
        /\ async_update_data(ret, result) = Raised("UpdateFailed")

\* the userData GET of the authenticate() of a get_data() met a transport error
C20_Witness ==
    /\ InGetData /\ authRet = "raised"
    /\ last.ep = "userData" /\ IsError(last.resp)
    /\ pc = "done" /\ Len(reqlog) = 3

\* C14: when a get_data() has returned a snapshot and the next call is a
\* get_data() whose requests get the answers they got in the first one, the second
\* call returns a snapshot equal to the first, whether the session was
\* authenticated before the first call or by it, or by neither.
C14_StableBackendSameSnapshot ==
    (stable.mode = "second" /\ pc = "done" /\ stable.first.ret = "returned")
        => ret = "returned" /\ result = stable.first.result

\* the first get_data() authenticated the session, the second did not have to, and
\* both returned the same snapshot with an unpaid bill and the identity
C14_Witness ==
    /\ stable.mode = "second" /\ pc = "done"
    /\ stable.answers[1].ep = "landing" /\ entryAuth
    /\ ret = "returned" /\ result = stable.first.result
    /\ result.user.sso_id = Num(12345)
    /\ result.unpaid_bills.total_count = 1

\* the points of a record of the subscriptions summary, 0 without the field
PointsOf(rec) ==
    IF "totalPointsInOnlineShop" \in DOMAIN rec THEN rec.totalPointsInOnlineShop.v ELSE 0

RECURSIVE SumOver(_, _)
SumOver(l, S) ==
    IF S = {} THEN 0
    ELSE LET i == CHOOSE x \in S : TRUE
         IN  PointsOf(l[i]) + SumOver(l, S \ {i})

LoginEndpoints == {"landing", "login"}

\* C24: no step sets authenticated back to false, whatever a request gets, a 401
\* included; and a get_data(), get_profile_invoices() or get_profile_transactions()
\* on a session that is authenticated issues no landing GET and no login POST.
C24_AuthenticatedIsMonotonic ==
    [][ /\ authenticated => authenticated'
        /\ (op' \in LazyMethods /\ entryAuth')
               => \A i \in DOMAIN reqlog' : reqlog'[i].ep \notin LoginEndpoints
      ]_vars

\* a get_data() on an authenticated session has got 401 on its profiles request
\* and has returned, and the session is still authenticated
C24_Witness ==
    /\ GaveSnapshot /\ entryAuth /\ authenticated
    /\ \E i \in At("profiles") : reqlog[i].res = 401
    /\ At("landing") = {} /\ At("login") = {}

\* the key of by_profile for a profile id of the portal
KeyOf(id) ==
    CASE id = Num(100000001) -> <<1, 0, 0, 0, 0, 0, 0, 0, 1>>
      [] id = Num(2) -> <<2>>
      [] id = Num(0) -> <<0>>
      [] OTHER -> <<>>

\* C26: in every snapshot every key of unpaid_bills.by_profile is the string form
\* of the id of a profile of the snapshot's profiles; when profiles is empty, by a
\* failed request or an empty list, by_profile is empty and both unpaid totals
\* are 0.
C26_KeysAreProfileIds ==
    GaveSnapshot =>
        /\ \A k \in DOMAIN result.unpaid_bills.by_profile :
               \E j \in DOMAIN result.profiles :
                   /\ "id" \in DOMAIN result.profiles[j]
                   /\ result.profiles[j].id # None
                   /\ KeyOf(result.profiles[j].id) = k
        /\ result.profiles = <<>>
               => /\ result.unpaid_bills.by_profile = EmptyDict
                  /\ result.unpaid_bills.total_amount = 0
                  /\ result.unpaid_bills.total_count = 0
                  /\ result.summary.total_unpaid_amount = 0
                  /\ result.summary.total_unpaid_count = 0

\* a snapshot with records for both of its profiles
C26_Witness ==
    /\ GaveSnapshot
    /\ Len(result.profiles) = 2
    /\ DOMAIN result.unpaid_bills.by_profile = {<<1, 0, 0, 0, 0, 0, 0, 0, 1>>, <<2>>}

C25_SessionWrittenOnlyByVerifiedLogin ==
    [][ /\ session' # session
              => /\ pc = "userData" /\ authRet' = "true"
                 /\ last'.ep = "userData" /\ ~IsError(last'.resp)
                 /\ last'.resp.status = HTTP_OK /\ SaysLogged(last'.resp.body)
        /\ authRet' \in {"false", "raised"} => session' = session
        /\ (op' \in LazyMethods /\ entryAuth') => session' = session
        /\ credentials' = credentials /\ credentials' = EntryData
      ]_vars

\* an authenticate() on a session that has an identity has returned false after a
\* userData response that says the user is not logged in, and the session is as
\* it was
C25_Witness ==
    /\ op = "authenticate" /\ entryAuth /\ authRet = "false"
    /\ LastStatus("userData", HTTP_OK)
    /\ last.resp.body = [data |-> [isUserLogged |-> Bool(FALSE)]]
    /\ authenticated /\ user_data = CurrentUser1 /\ sso_id = Num(12345)

\* the authenticate() of async_setup_entry has ended in the way how
SetupAuthEnded(how) == op = "authenticate" /\ pc = "done" /\ ret = how

\* C23: async_setup_entry raises ConfigEntryNotReady with no coordinator created
\* and no data request issued when its authenticate() has raised, and only then:
\* after an authenticate() that returned, false included, it is not aborted there
\* and goes on to the first refresh, which calls get_data(); and the entry is in
\* hass.data only once the get_data() of the first refresh has ended.
C23_SetupAbortsOnlyOnRaise ==
    /\ (hass.stage = "not_ready" /\ ~hass.coordinator)
           => /\ SetupAuthEnded("raised")
              /\ \A i \in DOMAIN reqlog : reqlog[i].ep \notin DataEndpoints
    /\ SetupAuthEnded("raised")
           => hass.stage \in {"authenticate", "not_ready"} /\ ~hass.coordinator /\ ~hass.stored
    /\ SetupAuthEnded("returned") => hass.stage = "authenticate"
    /\ hass.coordinator
           => /\ op = "get_data"
              /\ hass.stage \in {"first_refresh", "stored", "not_ready"}
    /\ hass.stored
           => /\ hass.stage = "stored" /\ hass.coordinator
              /\ op = "get_data" /\ pc = "done"

\* the authenticate() of the setup returned false, the get_data() of the first
\* refresh authenticated the session and returned, and the entry is stored
C23_Witness ==
    /\ hass.stored
    /\ op = "get_data" /\ ~entryAuth /\ authRet = "true"
    /\ ret = "returned" /\ authenticated

====
